---- MODULE Spec2Model ----
(***************************************************************************)
(* Model of the AndroidWorld benchmark harness:                            *)
(*   - AndroidWorldTools (eval/tools.py): clickables cache, action shims,  *)
(*     memory notes, complete();                                           *)
(*   - AndroidWorldBenchmark.run (eval/android_world_bench.py) with the    *)
(*     result tracker (eval/tracker.py) and the overlay keepalive          *)
(*     (eval/portal/keepalive.py).                                         *)
(* The adapter's three groups of fields (cache, memory, completion) are    *)
(* touched by disjoint operations, so each group has its own               *)
(* specification over the shared variables.                                *)
(***************************************************************************)
EXTENDS Integers, Sequences, FiniteSets, TLC

VARIABLES
    \* AndroidWorldTools fields (tools.py:14-20)
    clickables_cache, memory, success, reason, finished,
    \* observation of the adapter: the last call, and the calls so far
    toolCall, stale, accepted,
    \* AndroidWorldBenchmark.run: position, loop variables and locals
    pc, branch, pending, task_pos, task_idx, num_tasks, task_complexity,
    max_steps_multiplier, reasoning, max_steps, max_retries, timeout,
    agent, agent_result, error, task_result, score, keepalive,
    \* the world of the driver: the result files, the calls made for the
    \* current task instance, and what the previous instance left
    files, trace, prev

toolVars == <<clickables_cache, memory, success, reason, finished,
              toolCall, stale, accepted>>
driverVars == <<pc, branch, pending, task_pos, task_idx, num_tasks, task_complexity,
                max_steps_multiplier, reasoning, max_steps, max_retries,
                timeout, agent, agent_result, error, task_result, score,
                keepalive,
                files, trace, prev>>
vars == <<toolVars, driverVars>>

-----------------------------------------------------------------------------
(* Bounds of the model *)

MaxTree == 2          \* longest UI tree the Environment Client returns
MaxCoord == 2         \* screen coordinates are 0..MaxCoord
MaxAccepted == 11     \* remember calls accepted in one run
MaxInstances == 2     \* largest get_suite_task_length answer
MaxCalls == 4         \* start and stop calls on one keepalive

-----------------------------------------------------------------------------
(* Python values *)

\* list[i] for a Python list held as a 1-based sequence; negative i counts
\* from the end.  Outside -len..len-1 Python raises IndexError.
PyInRange(lst, i) == -Len(lst) <= i /\ i < Len(lst)
PyGetItem(lst, i) == IF i >= 0 THEN lst[i + 1] ELSE lst[Len(lst) + i + 1]

\* lst[-n:] for n > 0
PyLastN(lst, n) ==
    IF Len(lst) <= n THEN lst ELSE SubSeq(lst, Len(lst) - n + 1, Len(lst))

Abs(n) == IF n < 0 THEN -n ELSE n

\* Optional[T]: <<>> is None, <<v>> is the value v
None == <<>>
Some(v) == <<v>>

\* a / b (true division) as the exact fraction; a // b would be the floor
TrueDiv(a, b) == [num |-> a, den |-> b]
FloorDiv(a, b) == [num |-> a \div b, den |-> 1]

-----------------------------------------------------------------------------
(* UI elements (representation_utils.UIElement as the adapter reads it) *)

Element(t, c, lc, ch, fo, ed, bb, x, y) ==
    [text |-> t, is_clickable |-> c, is_long_clickable |-> lc,
     is_checkable |-> ch, is_focusable |-> fo, is_editable |-> ed,
     has_bbox |-> bb, cx |-> x, cy |-> y]

UIElements ==
    { Element("label",  FALSE, FALSE, FALSE, FALSE, FALSE, TRUE,  0, 0),
      Element("button", TRUE,  FALSE, FALSE, FALSE, FALSE, TRUE,  1, 1),
      Element("field",  FALSE, FALSE, FALSE, FALSE, TRUE,  FALSE, 0, 0),
      Element("toggle", FALSE, TRUE,  TRUE,  TRUE,  FALSE, TRUE,  2, 1) }

RECURSIVE SeqsUpTo(_, _)
SeqsUpTo(S, n) ==
    IF n = 0 THEN { <<>> }
    ELSE LET shorter == SeqsUpTo(S, n - 1)
         IN  shorter \cup { Append(s, e) : s \in shorter, e \in S }

UITrees == SeqsUpTo(UIElements, MaxTree)
Coords == 0 .. MaxCoord
Indices == -2 .. (MaxTree + 1)

\* stale: "never" before the first enumeration, "fresh" from an enumeration
\* until the next navigation action, "stale" from then to the next enumeration.
Navigated(s) == IF s = "never" THEN "never" ELSE "stale"

\* The last call on the adapter: its arguments, what it returned, the
\* execute_action requests it issued, whether it raised, and the adapter's
\* state when it was called.
NoCall == [op |-> "none", arg |-> 0, ret |-> "none", sent |-> <<>>,
           raised |-> FALSE, stale |-> "never",
           before |-> [cache |-> <<>>, memory |-> <<>>]]

Call(op, arg, ret, sent, raised) ==
    [op |-> op, arg |-> arg, ret |-> ret, sent |-> sent, raised |-> raised,
     stale |-> stale,
     before |-> [cache |-> clickables_cache, memory |-> memory]]

-----------------------------------------------------------------------------
(* AndroidWorldTools: clickables cache and device actions *)

\* a variant of the condition that forgets is_editable
KeepsElementNoEditable(el) ==
    el.is_clickable \/ el.is_long_clickable \/ el.is_checkable
        \/ el.is_focusable

\* tools.py:31-35, the condition of the list comprehension
KeepsElement(el) ==
    el.is_clickable \/ el.is_long_clickable \/ el.is_checkable
        \/ el.is_focusable \/ el.is_editable

\* tools.py:28-36
RECURSIVE FilterClickables(_)
FilterClickables(elements) ==
    IF elements = <<>> THEN <<>>
    ELSE LET rest == FilterClickables(Tail(elements))
         IN  IF KeepsElement(Head(elements))
             THEN <<Head(elements)>> \o rest
             ELSE rest

\* get_clickables: the client raises (cache untouched), or returns a tree.
\* The returned listing reads el.bbox_pixels.x_min of every cached element, so
\* an element without a bounding box makes the listing raise after the cache
\* has been replaced; the except clause turns that into the error string.
GetClickables ==
    /\ \/ /\ toolCall' = Call("get_clickables", None,
                              "Error retrieving clickables", <<>>, FALSE)
          /\ UNCHANGED <<clickables_cache, stale>>
       \/ \E tree \in UITrees :
            LET new == FilterClickables(tree) IN
            /\ clickables_cache' = new
            /\ stale' = "fresh"
            /\ toolCall' =
                 Call("get_clickables", Some(tree),
                      IF new = <<>> THEN "No clickable elements found."
                      ELSE IF \E i \in DOMAIN new : ~new[i].has_bbox
                           THEN "Error retrieving clickables"
                           ELSE "list",
                      <<>>, FALSE)
    /\ UNCHANGED <<memory, success, reason, finished, accepted>>
    /\ UNCHANGED driverVars

\* a variant of the range check without its lower bound
InvalidIndexUpperOnly(index, cache) == index >= Len(cache)

\* tools.py:59
InvalidIndex(index, cache) == index < 0 \/ index >= Len(cache)

\* tools.py:58-72
TapByIndex(index) ==
    /\ IF InvalidIndex(index, clickables_cache)
       THEN /\ toolCall' = Call("tap_by_index", index, "False", <<>>, FALSE)
            /\ stale' = stale
       ELSE IF ~PyInRange(clickables_cache, index)
       THEN \* IndexError, caught at tools.py:70
            /\ toolCall' = Call("tap_by_index", index, "False", <<>>, FALSE)
            /\ stale' = stale
       ELSE LET el == PyGetItem(clickables_cache, index) IN
            IF ~el.has_bbox
            THEN /\ toolCall' = Call("tap_by_index", index, "False", <<>>, FALSE)
                 /\ stale' = stale
            ELSE LET action == [action_type |-> "click", x |-> el.cx,
                                y |-> el.cy]
                 IN  \E ok \in BOOLEAN :
                        /\ toolCall' = Call("tap_by_index", index,
                                            IF ok THEN "True" ELSE "False",
                                            <<action>>, FALSE)
                        /\ stale' = Navigated(stale)
    /\ UNCHANGED <<clickables_cache, memory, success, reason, finished,
                   accepted>>
    /\ UNCHANGED driverVars

\* One execute_action request inside try/except (tools.py:79-83 and alike):
\* True if the client returned, False if it raised.
SendGuarded(op, arg, action, nav) ==
    /\ \E ok \in BOOLEAN :
          toolCall' = Call(op, arg, IF ok THEN "True" ELSE "False",
                           <<action>>, FALSE)
    /\ stale' = IF nav THEN Navigated(stale) ELSE stale
    /\ UNCHANGED <<clickables_cache, memory, success, reason, finished,
                   accepted>>
    /\ UNCHANGED driverVars

\* tools.py:74-83
TapByCoordinates(x, y) ==
    SendGuarded("tap_by_coordinates", <<x, y>>,
                [action_type |-> "click", x |-> x, y |-> y], TRUE)

\* a variant of line 95 that sends a diagonal swipe to the horizontal axis
get_swipe_direction_ge(start_x, start_y, end_x, end_y) ==
    LET dx == end_x - start_x
        dy == end_y - start_y
    IN  IF Abs(dx) >= Abs(dy)
        THEN IF dx > 0 THEN "right" ELSE "left"
        ELSE IF dy < 0 THEN "down" ELSE "up"

\* tools.py:92-106
get_swipe_direction(start_x, start_y, end_x, end_y) ==
    LET dx == end_x - start_x
        dy == end_y - start_y
    IN  IF Abs(dx) > Abs(dy)
        THEN IF dx > 0 THEN "right" ELSE "left"
        ELSE IF dy < 0 THEN "down" ELSE "up"

\* tools.py:85-120
Swipe(start_x, start_y, end_x, end_y) ==
    SendGuarded("swipe", <<start_x, start_y, end_x, end_y>>,
                [action_type |-> "scroll",
                 direction |-> get_swipe_direction(start_x, start_y,
                                                   end_x, end_y)], TRUE)

\* tools.py:122-131
InputText(text) ==
    SendGuarded("input_text", text,
                [action_type |-> "input_text", text |-> text], FALSE)

\* tools.py:133-142
Back ==
    SendGuarded("back", <<>>, [action_type |-> "navigate_back"], TRUE)

\* tools.py:144-160: keycode 3 goes through back(); every other keycode is
\* sent outside any try, so a client exception leaves press_key.
PressKey(keycode) ==
    IF keycode = 3
    THEN SendGuarded("press_key", keycode, [action_type |-> "navigate_back"],
                     TRUE)
    ELSE /\ \E ok \in BOOLEAN :
              /\ toolCall' =
                   Call("press_key", keycode,
                        IF ok THEN "True" ELSE "raised",
                        <<[action_type |-> "press_keyboard",
                           keycode |-> keycode]>>,
                        ~ok)
              /\ stale' = Navigated(stale)
         /\ UNCHANGED <<clickables_cache, memory, success, reason, finished,
                        accepted>>
         /\ UNCHANGED driverVars

\* tools.py:162-171
StartApp(package) ==
    SendGuarded("start_app", package,
                [action_type |-> "open_app", app_name |-> package], TRUE)

-----------------------------------------------------------------------------
(* AndroidWorldTools: memory notes *)

\* A Python str is the sequence of its characters; a value that is no str
\* (None, 7) carries only its truth value.
Str(chars) == [is_str |-> TRUE, truthy |-> chars # <<>>, chars |-> chars]
NonStr(truthy) == [is_str |-> FALSE, truthy |-> truthy, chars |-> <<>>]

Whitespace == { " " }

\* str.strip(): leading and trailing whitespace removed
RECURSIVE LStrip(_)
LStrip(chars) ==
    IF chars # <<>> /\ Head(chars) \in Whitespace
    THEN LStrip(Tail(chars)) ELSE chars

RECURSIVE RStrip(_)
RStrip(chars) ==
    IF chars # <<>> /\ chars[Len(chars)] \in Whitespace
    THEN RStrip(SubSeq(chars, 1, Len(chars) - 1)) ELSE chars

Strip(chars) == RStrip(LStrip(chars))

\* the arguments remember is called with: "", None, 7, "a", " b", " "
Informations ==
    { Str(<<>>), NonStr(FALSE), NonStr(TRUE),
      Str(<<"a">>), Str(<<" ", "b">>), Str(<<" ">>) }

max_memory_items == 10

\* a variant of the guard that lets the empty string through
RememberRejectsNonStrOnly(information) == ~information.is_str

\* tools.py:199
RememberRejects(information) ==
    ~information.truthy \/ ~information.is_str

\* a variant of the truncation that keeps the oldest notes
RememberStoreKeepOldest(mem, information) ==
    LET appended == Append(mem, Strip(information.chars))
    IN  IF Len(appended) > max_memory_items
        THEN SubSeq(appended, 1, max_memory_items)
        ELSE appended

\* tools.py:201-204
RememberStore(mem, information) ==
    LET appended == Append(mem, Strip(information.chars))
    IN  IF Len(appended) > max_memory_items
        THEN PyLastN(appended, max_memory_items)
        ELSE appended

\* tools.py:195-205
Remember(information) ==
    /\ IF RememberRejects(information)
       THEN /\ toolCall' =
                 Call("remember", information,
                      "Error: Please provide valid information to remember.",
                      <<>>, FALSE)
            /\ UNCHANGED <<memory, accepted>>
       ELSE /\ Len(accepted) < MaxAccepted
            /\ memory' = RememberStore(memory, information)
            /\ accepted' = Append(accepted, information)
            /\ toolCall' = Call("remember", information, "Remembered",
                                <<>>, FALSE)
    /\ UNCHANGED <<clickables_cache, success, reason, finished, stale>>
    /\ UNCHANGED driverVars

\* tools.py:207-211
GetMemory ==
    /\ toolCall' = Call("get_memory", <<>>, memory, <<>>, FALSE)
    /\ UNCHANGED <<clickables_cache, memory, success, reason, finished,
                   stale, accepted>>
    /\ UNCHANGED driverVars

-----------------------------------------------------------------------------
(* AndroidWorldTools: complete *)

Reasons == { "", "done", "stuck", "no route", "crashed app" }

Completion(s, r, f, raised) ==
    [success |-> s, reason |-> r, finished |-> f, raised |-> raised]

\* a variant that records a failure whatever the reason
completeNoCheck(st, succ, rsn) ==
    IF succ
    THEN Completion(Some(TRUE),
                    Some(IF rsn # "" THEN rsn
                         ELSE "Task completed successfully."),
                    TRUE, FALSE)
    ELSE Completion(Some(FALSE), Some(rsn), TRUE, FALSE)

\* a variant of line 225 without the default reason
completeNoDefault(st, succ, rsn) ==
    IF succ
    THEN Completion(Some(TRUE), Some(rsn), TRUE, FALSE)
    ELSE IF rsn = ""
         THEN Completion(Some(FALSE), st.reason, st.finished, TRUE)
         ELSE Completion(Some(FALSE), Some(rsn), TRUE, FALSE)

\* tools.py:223-233: the fields after complete(succ, rsn) called in st, and
\* whether the call raised ValueError
complete(st, succ, rsn) ==
    IF succ
    THEN Completion(Some(TRUE),
                    Some(IF rsn # "" THEN rsn
                         ELSE "Task completed successfully."),
                    TRUE, FALSE)
    ELSE IF rsn = ""
         THEN Completion(Some(FALSE), st.reason, st.finished, TRUE)
         ELSE Completion(Some(FALSE), Some(rsn), TRUE, FALSE)

Complete(succ, rsn) ==
    LET st == Completion(success, reason, finished, FALSE)
        new == complete(st, succ, rsn)
    IN  /\ success' = new.success
        /\ reason' = new.reason
        /\ finished' = new.finished
        /\ toolCall' =
             [op |-> "complete", arg |-> <<succ, rsn>>,
              ret |-> IF new.raised THEN "raised ValueError"
                      ELSE IF new.finished THEN "True" ELSE "False",
              sent |-> <<>>, raised |-> new.raised, stale |-> stale,
              before |-> st]
        /\ UNCHANGED <<clickables_cache, memory, stale, accepted>>
        /\ UNCHANGED driverVars

-----------------------------------------------------------------------------
(* OverlayKeepalive (eval/portal/keepalive.py) *)

\* keepalive.py:38-39; alive is the set of subprocesses this object spawned
\* that have not exited
NewKeepalive == [process |-> None, running |-> FALSE, alive |-> {}]

\* the pid of a new subprocess: one no live subprocess has
NewPid(k) == CHOOSE p \in 1 .. (Cardinality(k.alive) + 1) : p \notin k.alive

\* process.poll() is None
Polls(k) == k.process # None /\ k.process[1] \in k.alive

\* a variant of start without the check of line 43
KeepaliveStartNoPoll(k, popen_ok) ==
    IF popen_ok
    THEN [k EXCEPT !.process = Some(NewPid(k)),
                   !.running = TRUE,
                   !.alive = @ \cup { NewPid(k) }]
    ELSE k

\* keepalive.py:41-71; popen_ok: subprocess.Popen returned a process
KeepaliveStart(k, popen_ok) ==
    IF Polls(k) THEN k
    ELSE IF popen_ok
         THEN [k EXCEPT !.process = Some(NewPid(k)),
                        !.running = TRUE,
                        !.alive = @ \cup { NewPid(k) }]
         ELSE k

\* a variant of stop that keeps the handle of a process it had to kill
KeepaliveStopKeepHandle(k, how) ==
    IF k.process = None THEN k
    ELSE IF how = "error" THEN k
    ELSE IF how = "kill" THEN [k EXCEPT !.alive = @ \ { k.process[1] }]
    ELSE [k EXCEPT !.alive = @ \ { k.process[1] },
                   !.process = None,
                   !.running = FALSE]

\* keepalive.py:73-98; how: the process exits on terminate ("graceful"), only
\* on kill ("kill"), or terminate raises ("error", logged at line 98)
KeepaliveStop(k, how) ==
    IF k.process = None THEN k
    ELSE IF how = "error" THEN k
    ELSE [k EXCEPT !.alive = @ \ { k.process[1] },
                   !.process = None,
                   !.running = FALSE]

StopWays == { "graceful", "kill", "error" }

\* keepalive.py:75-92: the calls stop() makes on the process it holds
StopCalls(k, how) ==
    IF k.process = None THEN <<>>
    ELSE IF how = "error" THEN <<"terminate">>
    ELSE IF how = "graceful" THEN <<"terminate", "wait(timeout=5)">>
    ELSE <<"terminate", "wait(timeout=5)", "kill", "wait">>

-----------------------------------------------------------------------------
(* Result tracker (eval/tracker.py) *)

\* get_suite_task_list(-1): two task names, here two that share a directory
TaskList == << <<"a", " ", "b">>, <<"a", "_", "b">> >>

\* tracker.py:84, str.replace(' ', '_')
Underscored(task_name) ==
    [i \in DOMAIN task_name |->
        IF task_name[i] = " " THEN "_" ELSE task_name[i]]

\* tracker.py:83-87: the directory of a task's result, under OUTPUT_DIR
get_task_result_path(task_name) == Underscored(task_name)

Dirs == { get_task_result_path(TaskList[i]) : i \in DOMAIN TaskList }

\* tracker.py:90-97 with the defaults of TaskResult (tracker.py:61-77)
track_task(task_name, idx, goal, steps) ==
    [task_id |-> 0, task_name |-> task_name, task_idx |-> idx,
     task_description |-> goal, max_steps |-> steps,
     success |-> "0.0", agent_success |-> FALSE, steps_taken |-> 0,
     reasoning |-> FALSE, final_thought |-> <<>>, error |-> None]

\* tracker.py:111-129: the fields write_task_result sets; a_result and err
\* are Optional
Finalised(tr, ag, sc, a_result, err) ==
    LET r1 == [tr EXCEPT !.success = sc]
        r2 == IF a_result # None
              THEN [r1 EXCEPT !.agent_success = a_result[1].success,
                              !.steps_taken = a_result[1].steps,
                              !.final_thought = a_result[1].reason]
              ELSE r1
        r3 == IF err # None THEN [r2 EXCEPT !.error = err] ELSE r2
    IN  [r3 EXCEPT !.reasoning = ag.reasoning]

\* a variant that opens the file for appending
WrittenAppending(old, obj, io) ==
    IF io = "open fails" THEN old
    ELSE IF io = "dump fails" THEN old
    ELSE old \o <<obj>>

\* tracker.py:133-138: the JSON objects in result.json after the write;
\* open(fpath, "w") truncates, json.dump writes one object
Written(old, obj, io) ==
    IF io = "open fails" THEN old
    ELSE IF io = "dump fails" THEN <<>>
    ELSE <<obj>>

WriteOutcomes == { "ok", "mkdir raises", "open fails", "dump fails" }

-----------------------------------------------------------------------------
(* AndroidWorldBenchmark.run (eval/android_world_bench.py:66-228) *)

\* run(reasoning, max_steps_multiplier): the default multiplier of line 79
\* with reasoning on, and a smaller one with reasoning off
RunArgs ==
    { [max_steps_multiplier |-> 15, reasoning |-> TRUE],
      [max_steps_multiplier |-> 3, reasoning |-> FALSE] }
\* the answers of get_task_complexity
Complexities == { 1, 3 }
Scores == { "0.0", "1.0" }
StepCounts == { 1, 2 }

task_name == TaskList[task_pos]
task_goal == <<"goal of", task_name, task_idx>>

Event(call, ok) == [call |-> call, ok |-> ok]
Did(call) == \E i \in DOMAIN trace : trace[i].call = call
DidOk(call) == \E i \in DOMAIN trace : trace[i] = Event(call, TRUE)
Count(call) == Cardinality({ i \in DOMAIN trace : trace[i].call = call })

Locals == <<task_complexity, max_steps, max_retries, timeout>>
Objects == <<agent, agent_result, error, task_result, score>>
Inputs == <<max_steps_multiplier, reasoning>>
Loop == <<task_pos, task_idx, num_tasks>>

\* An exception leaves run(): nothing more of it executes.
Raise ==
    /\ pc' = "raised"
    /\ UNCHANGED <<Loop, prev>>

\* the locals of one iteration before any of them is assigned
NoBudget == [max_steps |-> 0, max_retries |-> TrueDiv(0, 10), timeout |-> 0]

\* a variant of the inner for whose next iteration starts below the reset of
\* line 105
ContinueNoReset ==
    /\ prev' = Some([task_name |-> task_name, task_idx |-> task_idx,
                      recorded |-> DidOk("write file")])
    /\ IF task_idx + 1 < num_tasks
       THEN /\ task_idx' = task_idx + 1
            /\ pc' = "get_task_goal"
            /\ UNCHANGED <<task_pos, num_tasks>>
       ELSE /\ task_pos' = task_pos + 1
            /\ pc' = "for task_name"
            /\ UNCHANGED <<task_idx, num_tasks>>
    /\ task_complexity' = 0
    /\ max_steps' = NoBudget.max_steps
    /\ max_retries' = NoBudget.max_retries
    /\ timeout' = NoBudget.timeout
    /\ agent' = None /\ agent_result' = None /\ error' = None
    /\ task_result' = None /\ score' = None
    /\ branch' = "none"

\* android_world_bench.py:104: the next task_idx of the inner for, or back to
\* the outer for when the range is exhausted.  Every local of the iteration
\* is assigned again before it is read (lines 107-111, 154, 169, 174, 177),
\* so the values the finished iteration leaves in them are dropped here.
Continue ==
    /\ prev' = Some([task_name |-> task_name, task_idx |-> task_idx,
                      recorded |-> DidOk("write file")])
    /\ IF task_idx + 1 < num_tasks
       THEN /\ task_idx' = task_idx + 1
            /\ pc' = "reset"
            /\ UNCHANGED <<task_pos, num_tasks>>
       ELSE /\ task_pos' = task_pos + 1
            /\ pc' = "for task_name"
            /\ UNCHANGED <<task_idx, num_tasks>>
    /\ task_complexity' = 0
    /\ max_steps' = NoBudget.max_steps
    /\ max_retries' = NoBudget.max_retries
    /\ timeout' = NoBudget.timeout
    /\ agent' = None /\ agent_result' = None /\ error' = None
    /\ task_result' = None /\ score' = None
    /\ branch' = "none"

\* android_world_bench.py:81-99
RunStart ==
    /\ pc = "start"
    /\ \/ /\ pc' = "for task_name"
          /\ keepalive' = NewKeepalive
       \/ /\ pc' = "raised"
          /\ UNCHANGED keepalive
    /\ UNCHANGED <<branch, pending, Loop, Locals, Objects, Inputs, files, trace, prev>>
    /\ UNCHANGED toolVars

\* android_world_bench.py:101-104; get_suite_task_length (line 102) is called
\* outside any try
ForTaskName ==
    /\ pc = "for task_name"
    /\ IF task_pos > Len(TaskList)
       THEN /\ pc' = "returned"
            /\ UNCHANGED Loop
            /\ UNCHANGED trace
       ELSE \/ \E n \in 0 .. MaxInstances :
                 /\ num_tasks' = n
                 /\ task_idx' = 0
                 /\ trace' = <<Event("get_suite_task_length", TRUE)>>
                 /\ IF n > 0
                    THEN pc' = "reset" /\ task_pos' = task_pos
                    ELSE pc' = "for task_name" /\ task_pos' = task_pos + 1
            \/ /\ trace' = <<Event("get_suite_task_length", FALSE)>>
               /\ pc' = "raised"
               /\ UNCHANGED Loop
    /\ UNCHANGED <<branch, pending, Locals, Objects, Inputs, keepalive, files,
                   prev>>
    /\ UNCHANGED toolVars

\* android_world_bench.py:105
Reset ==
    /\ pc = "reset"
    /\ \/ /\ trace' = <<Event("reset", TRUE)>>
          /\ pc' = "get_task_goal"
       \/ /\ trace' = <<Event("reset", FALSE)>>
          /\ pc' = "raised"
    /\ UNCHANGED <<branch, pending, Loop, Locals, Objects, Inputs, keepalive, files,
                   prev>>
    /\ UNCHANGED toolVars

\* android_world_bench.py:106
GetTaskGoal ==
    /\ pc = "get_task_goal"
    /\ \/ /\ trace' = Append(trace, Event("get_task_goal", TRUE))
          /\ pc' = "get_task_complexity"
       \/ /\ trace' = Append(trace, Event("get_task_goal", FALSE))
          /\ pc' = "raised"
    /\ UNCHANGED <<branch, pending, Loop, Locals, Objects, Inputs, keepalive, files,
                   prev>>
    /\ UNCHANGED toolVars

\* a variant of line 110 with floor division
BudgetFloor(c, m) ==
    [max_steps |-> c * m, max_retries |-> FloorDiv(c * m, 10),
     timeout |-> c * 300]

\* android_world_bench.py:109-111
Budget(c, m) ==
    [max_steps |-> c * m, max_retries |-> TrueDiv(c * m, 10),
     timeout |-> c * 300]

\* android_world_bench.py:107-111
GetTaskComplexity ==
    /\ pc = "get_task_complexity"
    /\ \/ \E c \in Complexities :
            LET b == Budget(c, max_steps_multiplier) IN
            /\ task_complexity' = c
            /\ max_steps' = b.max_steps
            /\ max_retries' = b.max_retries
            /\ timeout' = b.timeout
            /\ trace' = Append(trace, Event("get_task_complexity", TRUE))
            /\ pc' = "initialize_task"
       \/ /\ trace' = Append(trace, Event("get_task_complexity", FALSE))
          /\ pc' = "raised"
          /\ UNCHANGED Locals
    /\ UNCHANGED <<branch, pending, Loop, Objects, Inputs, keepalive, files, prev>>
    /\ UNCHANGED toolVars

\* a variant of the except clause without its continue
AfterInitializeFailsNoContinue ==
    /\ pc' = "enable_accessibility_service"
    /\ UNCHANGED <<branch, Loop, Locals, Objects, prev>>

\* android_world_bench.py:120-126
AfterInitializeFails == Continue

\* android_world_bench.py:117-126
InitializeTask ==
    /\ pc = "initialize_task"
    /\ \/ /\ trace' = Append(trace, Event("initialize_task", TRUE))
          /\ pc' = "enable_accessibility_service"
          /\ UNCHANGED <<branch, Loop, Locals, Objects, prev>>
       \/ /\ trace' = Append(trace, Event("initialize_task", FALSE))
                        \o <<Event("send_discord_exception", TRUE)>>
          /\ AfterInitializeFails
    /\ UNCHANGED <<pending, Inputs, keepalive, files>>
    /\ UNCHANGED toolVars

\* android_world_bench.py:128-148: enable_accessibility_service, then
\* keepalive.start(); start logs a failed Popen and returns
EnableAccessibility ==
    /\ pc = "enable_accessibility_service"
    /\ \/ \E popen_ok \in BOOLEAN :
            /\ keepalive' = KeepaliveStart(keepalive, popen_ok)
            /\ trace' = Append(trace,
                               Event("enable_accessibility_service", TRUE))
                          \o <<Event("keepalive.start", popen_ok)>>
            /\ pc' = "DroidAgent"
            /\ UNCHANGED <<branch, Loop, Locals, Objects, prev>>
       \/ /\ trace' = Append(trace,
                             Event("enable_accessibility_service", FALSE))
                        \o <<Event("send_discord_exception", TRUE)>>
          /\ UNCHANGED keepalive
          /\ Continue
    /\ UNCHANGED <<pending, Inputs, files>>
    /\ UNCHANGED toolVars

\* android_world_bench.py:154-169
ConstructAgent ==
    /\ pc = "DroidAgent"
    /\ agent' = Some([goal |-> task_goal, max_steps |-> max_steps,
                      max_retries |-> max_retries, timeout |-> timeout,
                      reasoning |-> reasoning, step_counter |-> 0])
    /\ task_result' = Some(track_task(task_name, task_idx, task_goal,
                                      max_steps))
    /\ agent_result' = None
    /\ error' = None
    /\ score' = None
    /\ trace' = Append(trace, Event("DroidAgent", TRUE))
                  \o <<Event("track_task", TRUE)>>
    /\ pc' = "agent.run"
    /\ UNCHANGED <<branch, pending, Loop, Locals, Inputs, keepalive, files, prev>>
    /\ UNCHANGED toolVars

AgentResults ==
    { [success |-> TRUE, steps |-> 2, reason |-> <<"agent's last thought">>],
      [success |-> FALSE, steps |-> 1, reason |-> <<"agent gave up">>] }

\* android_world_bench.py:171-175, 183, 199: agent.run() returns its result,
\* raises WorkflowTimeoutError, or raises another exception
AgentRun ==
    /\ pc = "agent.run"
    /\ \/ \E res \in AgentResults :
            /\ agent_result' = Some(res)
            /\ agent' = Some([agent[1] EXCEPT !.step_counter = res.steps])
            /\ trace' = Append(trace, Event("agent.run", TRUE))
            /\ branch' = "normal"
            /\ pc' = "get_task_score"
            /\ UNCHANGED error
       \/ \E n \in StepCounts :
            /\ agent' = Some([agent[1] EXCEPT !.step_counter = n])
            /\ trace' = Append(trace, Event("agent.run", FALSE))
            /\ branch' = "timeout"
            /\ pc' = "get_task_score"
            /\ UNCHANGED <<agent_result, error>>
       \/ \E n \in { 1 } :
            /\ agent' = Some([agent[1] EXCEPT !.step_counter = n])
            /\ trace' = Append(trace, Event("agent.run", FALSE))
            /\ branch' = "error"
            /\ error' = Some("repr(agent exception)")
            /\ pc' = "write_task_result"
            /\ UNCHANGED agent_result
    /\ UNCHANGED <<pending, Loop, Locals, Inputs, task_result, score,
                   keepalive, files, prev>>
    /\ UNCHANGED toolVars

\* android_world_bench.py:177 and 187.  An exception of get_task_score in the
\* try body is caught by "except Exception" (line 199); in the timeout
\* handler it is caught by nothing and leaves run() after the finally block.
GetTaskScore ==
    /\ pc = "get_task_score"
    /\ \/ \E s \in Scores :
            /\ score' = Some(s)
            /\ trace' = Append(trace, Event("get_task_score", TRUE))
            /\ pc' = "write_task_result"
            /\ UNCHANGED <<branch, pending, error>>
       \/ /\ trace' = Append(trace, Event("get_task_score", FALSE))
          /\ UNCHANGED score
          /\ IF branch = "normal"
             THEN /\ branch' = "error"
                  /\ error' = Some("repr(score exception)")
                  /\ pc' = "write_task_result"
                  /\ UNCHANGED pending
             ELSE /\ pending' = TRUE
                  /\ pc' = "write_task_trajectory"
                  /\ UNCHANGED <<branch, error>>
    /\ UNCHANGED <<Loop, Locals, Inputs, agent, agent_result, task_result,
                   keepalive, files, prev>>
    /\ UNCHANGED toolVars

\* android_world_bench.py:196
TimeoutReason(seconds) == <<"Timeout after ", seconds, " seconds">>

\* a variant of lines 193-197 that reports max_steps as the steps taken
TimeoutResultMaxSteps(ag, seconds) ==
    [steps |-> ag.max_steps, success |-> FALSE,
     reason |-> TimeoutReason(seconds)]

\* android_world_bench.py:193-197
TimeoutResult(ag, seconds) ==
    [steps |-> ag.step_counter, success |-> FALSE,
     reason |-> TimeoutReason(seconds)]

\* a variant of line 201 that passes the agent's step counter as its result
WriteArgsAgentSteps ==
    CASE branch = "normal" ->
           [score |-> score[1], agent_result |-> agent_result, error |-> None]
      [] branch = "timeout" ->
           [score |-> score[1],
            agent_result |-> Some(TimeoutResult(agent[1], timeout)),
            error |-> None]
      [] OTHER ->
           [score |-> "0.0",
            agent_result |-> Some([steps |-> agent[1].step_counter,
                                   success |-> FALSE, reason |-> <<>>]),
            error |-> error]

\* the arguments of write_task_result at lines 180, 189 and 201
WriteArgs ==
    CASE branch = "normal" ->
           [score |-> score[1], agent_result |-> agent_result, error |-> None]
      [] branch = "timeout" ->
           [score |-> score[1],
            agent_result |-> Some(TimeoutResult(agent[1], timeout)),
            error |-> None]
      [] OTHER ->
           [score |-> "0.0", agent_result |-> None, error |-> error]

\* tracker.py:100-140 called from android_world_bench.py:180, 189, 201.
\* get_task_result_path (mkdir) is outside the try of write_task_result: its
\* exception leaves write_task_result, to "except Exception" when raised in
\* the try body, out of run() when raised in a handler.
WriteTaskResult ==
    /\ pc = "write_task_result"
    /\ LET a == WriteArgs
           dir == get_task_result_path(task_result[1].task_name)
           new == Finalised(task_result[1], agent[1], a.score,
                            a.agent_result, a.error)
       IN  /\ task_result' = Some(new)
           /\ \E io \in WriteOutcomes :
                IF io = "mkdir raises"
                THEN /\ trace' = Append(trace,
                                        Event("write_task_result", FALSE))
                     /\ UNCHANGED files
                     /\ IF branch = "normal"
                        THEN /\ branch' = "error"
                             /\ error' = Some("repr(mkdir exception)")
                             /\ pc' = "write_task_result"
                             /\ UNCHANGED pending
                        ELSE /\ pending' = TRUE
                             /\ pc' = "write_task_trajectory"
                             /\ UNCHANGED <<branch, error>>
                ELSE /\ files' = [files EXCEPT
                                    ![dir] = Written(@, new, io)]
                     /\ trace' = Append(trace,
                                        Event("write_task_result", TRUE))
                                   \o <<Event("write file", io = "ok"),
                                        Event("send_discord_task_result",
                                              TRUE)>>
                     /\ pc' = "write_task_trajectory"
                     /\ UNCHANGED <<branch, pending, error>>
    /\ UNCHANGED <<Loop, Locals, Inputs, agent, agent_result, score,
                   keepalive, prev>>
    /\ UNCHANGED toolVars

\* android_world_bench.py:202-215, the finally block
WriteTaskTrajectory ==
    /\ pc = "write_task_trajectory"
    /\ \/ trace' = Append(trace, Event("write_task_trajectory", TRUE))
       \/ trace' = Append(trace, Event("write_task_trajectory", FALSE))
                     \o <<Event("send_discord_exception", TRUE)>>
    /\ pc' = IF pending THEN "raised" ELSE "tear_down_task"
    /\ UNCHANGED <<branch, pending, Loop, Locals, Inputs, Objects, keepalive,
                   files, prev>>
    /\ UNCHANGED toolVars

\* a variant of the except clause of line 221 without its keepalive.stop()
TearDownTaskNoStopOnFailure ==
    /\ pc = "tear_down_task"
    /\ \/ \E how \in StopWays :
             /\ keepalive' = KeepaliveStop(keepalive, how)
             /\ trace' = Append(trace, Event("tear_down_task", TRUE))
                            \o <<Event("keepalive.stop", how # "error")>>
       \/ /\ UNCHANGED keepalive
          /\ trace' = Append(trace, Event("tear_down_task", FALSE))
                         \o <<Event("send_discord_exception", TRUE)>>
    /\ Continue
    /\ UNCHANGED <<pending, Inputs, files>>
    /\ UNCHANGED toolVars

\* android_world_bench.py:217-228
TearDownTask ==
    /\ pc = "tear_down_task"
    /\ \E how \in StopWays :
          /\ keepalive' = KeepaliveStop(keepalive, how)
          /\ \/ trace' = Append(trace, Event("tear_down_task", TRUE))
                           \o <<Event("keepalive.stop", how # "error")>>
             \/ trace' = Append(trace, Event("tear_down_task", FALSE))
                           \o <<Event("keepalive.stop", how # "error"),
                                Event("send_discord_exception", TRUE)>>
    /\ Continue
    /\ UNCHANGED <<pending, Inputs, files>>
    /\ UNCHANGED toolVars

\* the keepalive subprocess exits on its own
KeepaliveExits ==
    /\ pc \notin { "start", "returned", "raised" }
    /\ \E p \in keepalive.alive :
          keepalive' = [keepalive EXCEPT !.alive = @ \ { p }]
    /\ UNCHANGED <<pc, branch, pending, Loop, Locals, Inputs, Objects, files,
                   trace, prev>>
    /\ UNCHANGED toolVars

-----------------------------------------------------------------------------
(* Specifications *)

\* tools.py:14-20
InitTools ==
    /\ clickables_cache = <<>>
    /\ memory = <<>>
    /\ success = None
    /\ reason = None
    /\ finished = FALSE
    /\ toolCall = NoCall
    /\ stale = "never"
    /\ accepted = <<>>

\* run() has been called with its arguments and has executed nothing
InitDriver ==
    /\ pc = "start"
    /\ branch = "none"
    /\ pending = FALSE
    /\ task_pos = 1 /\ task_idx = 0 /\ num_tasks = 0
    /\ task_complexity = 0
    /\ \E a \in RunArgs :
          /\ max_steps_multiplier = a.max_steps_multiplier
          /\ reasoning = a.reasoning
    /\ max_steps = NoBudget.max_steps
    /\ max_retries = NoBudget.max_retries
    /\ timeout = NoBudget.timeout
    /\ agent = None /\ agent_result = None /\ error = None
    /\ task_result = None /\ score = None
    /\ keepalive = NewKeepalive
    /\ files = [d \in Dirs |-> <<>>]
    /\ trace = <<>>
    /\ prev = None

\* the driver while the adapter is exercised: run() with its defaults
\* (android_world_bench.py:71, 79), nothing executed
DriverIdle ==
    /\ InitDriver
    /\ max_steps_multiplier = 15
    /\ reasoning = TRUE

InitClickables == InitTools /\ DriverIdle

NextClickables ==
    \/ GetClickables
    \/ \E index \in Indices : TapByIndex(index)
    \/ \E x \in Coords, y \in Coords : TapByCoordinates(x, y)
    \/ \E x0 \in Coords, y0 \in Coords, x1 \in Coords, y1 \in Coords :
          Swipe(x0, y0, x1, y1)
    \/ \E text \in { "", "hi" } : InputText(text)
    \/ Back
    \/ \E keycode \in { 3, 4, 66 } : PressKey(keycode)
    \/ \E package \in { "com.android.settings" } : StartApp(package)

SpecClickables == InitClickables /\ [][NextClickables]_vars

InitMemory == InitTools /\ DriverIdle

NextMemory ==
    \/ \E information \in Informations : Remember(information)
    \/ GetMemory

SpecMemory == InitMemory /\ [][NextMemory]_vars

InitComplete == InitTools /\ DriverIdle

NextComplete ==
    \E succ \in BOOLEAN, rsn \in Reasons : Complete(succ, rsn)

SpecComplete == InitComplete /\ [][NextComplete]_vars

\* one OverlayKeepalive instance (keepalive.py:22-39) and its callers
InitKeepalive == InitTools /\ DriverIdle

KeepaliveCall(op, arg) ==
    [op |-> op, arg |-> arg, ret |-> "None", sent |-> <<>>,
     raised |-> FALSE, stale |-> stale, before |-> keepalive]

KeepaliveUnchanged ==
    /\ UNCHANGED <<clickables_cache, memory, success, reason, finished, stale,
                   accepted>>
    /\ UNCHANGED <<pc, branch, pending, Loop, Locals, Inputs, Objects, files,
                   prev>>

\* keepalive.py:41-71, a call of start()
StartKeepalive ==
    /\ Len(trace) < MaxCalls
    /\ \E popen_ok \in BOOLEAN :
          /\ keepalive' = KeepaliveStart(keepalive, popen_ok)
          /\ toolCall' = KeepaliveCall("keepalive.start", popen_ok)
          /\ trace' = Append(trace, Event("keepalive.start", popen_ok))
    /\ KeepaliveUnchanged

\* keepalive.py:73-98, a call of stop()
StopKeepalive ==
    /\ Len(trace) < MaxCalls
    /\ \E how \in StopWays :
          /\ keepalive' = KeepaliveStop(keepalive, how)
          /\ toolCall' = [KeepaliveCall("keepalive.stop", how)
                             EXCEPT !.sent = StopCalls(keepalive, how)]
          /\ trace' = Append(trace, Event("keepalive.stop", how # "error"))
    /\ KeepaliveUnchanged

\* the subprocess exits on its own between two calls
SubprocessExits ==
    /\ \E p \in keepalive.alive :
          /\ keepalive' = [keepalive EXCEPT !.alive = @ \ { p }]
          /\ toolCall' = KeepaliveCall("subprocess exits", p)
    /\ UNCHANGED trace
    /\ KeepaliveUnchanged

NextKeepalive ==
    \/ StartKeepalive
    \/ StopKeepalive
    \/ SubprocessExits

SpecKeepalive == InitKeepalive /\ [][NextKeepalive]_vars

Init == InitTools /\ InitDriver

Next ==
    \/ RunStart
    \/ ForTaskName
    \/ Reset
    \/ GetTaskGoal
    \/ GetTaskComplexity
    \/ InitializeTask
    \/ EnableAccessibility
    \/ ConstructAgent
    \/ AgentRun
    \/ GetTaskScore
    \/ WriteTaskResult
    \/ WriteTaskTrajectory
    \/ TearDownTask
    \/ KeepaliveExits

Spec == Init /\ [][Next]_vars

-----------------------------------------------------------------------------
(* Properties of the adapter *)

InteractiveFlags ==
    { "is_clickable", "is_long_clickable", "is_checkable", "is_focusable",
      "is_editable" }

\* C1: tap_by_index(i) with i < 0 or i >= len(cache) returns False and issues
\* no execute_action request (tap_by_index leaves the cache as it was).
C1_OutOfRangeTapFails ==
    (/\ toolCall.op = "tap_by_index"
     /\ \/ toolCall.arg < 0
        \/ toolCall.arg >= Len(toolCall.before.cache))
    => /\ toolCall.ret = "False"
       /\ toolCall.sent = <<>>
       /\ ~toolCall.raised

\* C1 happens: a negative index is tapped while the cache holds elements.
C1_Witness ==
    /\ toolCall.op = "tap_by_index"
    /\ toolCall.arg = -1
    /\ Len(toolCall.before.cache) = 2
    /\ toolCall.ret = "False"

\* C2: after a get_clickables call in which the client returned a UI tree, the
\* cache is, in the tree's order, exactly the tree's elements having at least
\* one of the five interactive flags; every cached element is in that tree.
C2_CacheIsFilteredTree ==
    (toolCall.op = "get_clickables" /\ toolCall.arg # None)
    => LET tree == toolCall.arg[1]
           Has(el) == \E f \in InteractiveFlags : el[f]
           kept == { i \in DOMAIN tree : Has(tree[i]) }
       IN  /\ Len(clickables_cache) = Cardinality(kept)
           /\ \A n \in DOMAIN clickables_cache :
                \E i \in kept :
                   /\ Cardinality({ j \in kept : j <= i }) = n
                   /\ clickables_cache[n] = tree[i]

\* C2 happens: an enumeration replaces a cache holding an element that the
\* new tree lacks, and the new tree has an element that is filtered out.
C2_Witness ==
    /\ toolCall.op = "get_clickables"
    /\ toolCall.arg # None
    /\ Len(toolCall.arg[1]) = 2
    /\ Len(clickables_cache) = 1
    /\ clickables_cache[1].is_editable
    /\ \E i \in DOMAIN toolCall.before.cache :
          \A j \in DOMAIN toolCall.arg[1] :
             toolCall.arg[1][j] # toolCall.before.cache[i]

\* C3: once a navigation action has followed the last enumeration, every
\* tap_by_index fails and issues no click.
C3_StaleIndexFails ==
    (toolCall.op = "tap_by_index" /\ toolCall.stale = "stale")
    => /\ toolCall.ret = "False"
       /\ toolCall.sent = <<>>

-----------------------------------------------------------------------------
(* Properties of the memory notes *)

Min(a, b) == IF a < b THEN a ELSE b

\* the last min(Len(notes), n) entries of notes, in order
MostRecent(notes, n) ==
    LET k == Min(Len(notes), n)
    IN  [i \in 1 .. k |-> notes[Len(notes) - k + i]]

\* C4 as stated: the memory list has at most 10 entries and is the most recent
\* min(n, 10) accepted notes, in insertion order.
C4_MemoryIsRecentNotes ==
    /\ Len(memory) <= 10
    /\ memory = MostRecent([i \in DOMAIN accepted |-> accepted[i].chars], 10)

\* C4 amended: the memory list has at most 10 entries and is the most recent
\* min(n, 10) accepted notes, each with its leading and trailing whitespace
\* removed, in insertion order.
C4_MemoryIsRecentStrippedNotes ==
    /\ Len(memory) <= 10
    /\ memory = MostRecent([i \in DOMAIN accepted |->
                               Strip(accepted[i].chars)], 10)

\* C4 happens: an eleventh note has been accepted and the oldest evicted.
C4_Witness ==
    /\ Len(accepted) = 11
    /\ Len(memory) = 10
    /\ accepted[1].chars = <<"a">>
    /\ accepted[2].chars = <<" ", "b">>
    /\ memory[1] = <<"b">>

\* C5: remember called with the empty string or with a value that is no
\* string returns the error value and leaves the memory list as it was.
C5_RejectedRememberKeepsMemory ==
    (/\ toolCall.op = "remember"
     /\ \/ ~toolCall.arg.is_str
        \/ toolCall.arg.chars = <<>>)
    => /\ toolCall.ret =
            "Error: Please provide valid information to remember."
       /\ memory = toolCall.before.memory
       /\ ~toolCall.raised

\* C5 happens: the empty string is offered while the list holds notes.
C5_Witness ==
    /\ toolCall.op = "remember"
    /\ toolCall.arg.is_str
    /\ toolCall.arg.chars = <<>>
    /\ Len(memory) = 2

-----------------------------------------------------------------------------
(* Properties of complete *)

\* C6: complete(success=False, reason="") raises, and after it finished and
\* reason have the values they had before the call.
C6_EmptyReasonFailureRaises ==
    (toolCall.op = "complete" /\ toolCall.arg = <<FALSE, "">>)
    => /\ toolCall.raised
       /\ finished = toolCall.before.finished
       /\ reason = toolCall.before.reason

\* C6 happens: the call is made on an adapter that has not finished.
C6_Witness ==
    /\ toolCall.op = "complete"
    /\ toolCall.arg = <<FALSE, "">>
    /\ ~toolCall.before.finished
    /\ ~finished

-----------------------------------------------------------------------------
(* Properties of the driver *)

\* C7: the agent is constructed with max_steps = c*m, max_retries = (c*m)/10
\* (ten times max_retries is max_steps) and timeout = c*300, and the outcome
\* record's max_steps is the same c*m.
C7_AgentBudget ==
    agent # None
    => LET c == task_complexity
           m == max_steps_multiplier
           ag == agent[1]
       IN  /\ c >= 1
           /\ ag.max_steps = c * m
           /\ ag.max_retries.den # 0
           /\ ag.max_retries.num * 10 = (c * m) * ag.max_retries.den
           /\ ag.max_retries.num * 10 = ag.max_steps * ag.max_retries.den
           /\ ag.timeout = c * 300
           /\ task_result # None
           /\ task_result[1].max_steps = c * m

\* C7 happens: an agent exists for complexity 3 and multiplier 3, where
\* (c*m)/10 is no integer.
C7_Witness ==
    /\ agent # None
    /\ task_complexity = 3
    /\ max_steps_multiplier = 3
    /\ pc = "agent.run"

OutsideInstance == { "reset", "for task_name", "returned", "raised" }

\* C8: when initialize_task raises, the exception is reported and the driver
\* is at the next task instance (or past the last one): for the failed
\* instance no agent ran, no score was fetched and no result was written.
C8_InitializeFailureSkips ==
    \A i \in DOMAIN trace :
       trace[i] = Event("initialize_task", FALSE)
       => /\ Len(trace) = i + 1
          /\ trace[i + 1] = Event("send_discord_exception", TRUE)
          /\ pc \in OutsideInstance
          /\ ~Did("agent.run")
          /\ ~Did("get_task_score")
          /\ ~Did("write_task_result")
          /\ ~Did("write file")
          /\ prev # None
          /\ ~prev[1].recorded

\* C8 happens: the first instance failed to initialize and the driver is at
\* the reset of the second.
C8_Witness ==
    /\ Did("initialize_task")
    /\ ~DidOk("initialize_task")
    /\ pc = "reset"
    /\ task_idx = 1

\* C9: when the agent run ends with a timeout, get_task_score is called; once
\* it has returned a score, write_task_result is called, and the outcome it
\* records has that score, agent_success false, final_thought "Timeout after
\* <complexity*300> seconds" and steps_taken the agent's step counter.
C9_TimeoutOutcome ==
    branch = "timeout"
    => /\ pc = "get_task_score" \/ Did("get_task_score")
       /\ DidOk("get_task_score")
          => (pc = "write_task_result" \/ Did("write_task_result"))
       /\ Did("write_task_result")
          => /\ DidOk("get_task_score")
             /\ task_result[1].success = score[1]
             /\ task_result[1].agent_success = FALSE
             /\ task_result[1].final_thought =
                  <<"Timeout after ", task_complexity * 300, " seconds">>
             /\ task_result[1].steps_taken = agent[1].step_counter
             /\ task_result[1].error = None
       /\ DidOk("write file")
          => files[Underscored(task_name)] = <<task_result[1]>>

\* C9 happens: a timed-out run with a score of 1.0 has been written.
C9_Witness ==
    /\ branch = "timeout"
    /\ DidOk("write file")
    /\ score = Some("1.0")
    /\ agent[1].step_counter = 2
    /\ pc = "tear_down_task"

\* C10: no result file ever holds more than one result object, and once a
\* task instance has recorded its outcome, the file of its task name holds
\* that outcome alone, whatever an earlier instance of the name left there.
C10_ResultFileOverwritten ==
    /\ \A d \in DOMAIN files : Len(files[d]) <= 1
    /\ (DidOk("write file") /\ task_result # None)
       => /\ files[Underscored(task_name)] = <<task_result[1]>>
          /\ task_result[1].task_name = task_name
          /\ task_result[1].task_idx = task_idx

\* C10 happens: two consecutive instances of one task name have both
\* recorded an outcome.
C10_Witness ==
    /\ pc = "tear_down_task"
    /\ DidOk("write file")
    /\ task_result # None
    /\ prev # None
    /\ prev[1].task_name = task_name
    /\ prev[1].task_idx + 1 = task_idx
    /\ prev[1].recorded
    /\ files[Underscored(task_name)] = <<task_result[1]>>

-----------------------------------------------------------------------------
(* Properties of the driver: failures *)

\* the per-instance calls to external systems
PerInstanceCalls ==
    { "get_suite_task_length", "reset", "get_task_goal",
      "get_task_complexity", "initialize_task",
      "enable_accessibility_service", "agent.run", "get_task_score",
      "tear_down_task" }

\* C11: whichever per-instance external calls fail (the result being
\* persisted without an error of its own), the failure only skips the task
\* instance: run() is never left by an uncaught exception.
C11_FailureOnlySkipsInstance ==
    (/\ \E i \in DOMAIN trace :
           trace[i].call \in PerInstanceCalls /\ ~trace[i].ok
     /\ \A i \in DOMAIN trace :
           trace[i].call = "write_task_result" => trace[i].ok)
    => pc # "raised"

-----------------------------------------------------------------------------
(* Properties of the adapter: device actions *)

SendingOps ==
    { "tap_by_coordinates", "swipe", "input_text", "back", "press_key",
      "start_app" }

\* C12: each of tap_by_coordinates, swipe, input_text, back, press_key and
\* start_app issues exactly one execute_action request and returns True or
\* False; no exception of the request propagates to the caller.
C12_ActionsReturnBoolean ==
    toolCall.op \in SendingOps
    => /\ Len(toolCall.sent) = 1
       /\ toolCall.ret \in { "True", "False" }
       /\ ~toolCall.raised

-----------------------------------------------------------------------------
(* Properties of the keepalive *)

\* C13: after any sequence of start and stop calls on one OverlayKeepalive
\* instance at most one subprocess spawned by it is alive; start while its
\* subprocess is alive spawns nothing and changes no state, and stop with no
\* process handle does nothing.
C13_AtMostOneSubprocess ==
    /\ Cardinality(keepalive.alive) <= 1
    /\ (toolCall.op = "keepalive.start" /\ Polls(toolCall.before))
       => keepalive = toolCall.before
    /\ (toolCall.op = "keepalive.stop" /\ toolCall.before.process = None)
       => keepalive = toolCall.before

\* C13 happens: a stop that failed left the subprocess running, and the
\* start that follows finds it alive.
C13_Witness ==
    /\ toolCall.op = "keepalive.start"
    /\ toolCall.arg = TRUE
    /\ Polls(toolCall.before)
    /\ Cardinality(keepalive.alive) = 1
    /\ \E i \in DOMAIN trace : trace[i] = Event("keepalive.stop", FALSE)

-----------------------------------------------------------------------------
(* Properties of swipe *)

\* the displacement of the last swipe and the direction it sent
SwipeDx == toolCall.arg[3] - toolCall.arg[1]
SwipeDy == toolCall.arg[4] - toolCall.arg[2]
SwipeDirection == toolCall.sent[1].direction

\* C14 as stated: swipe sends one scroll action whose direction is horizontal
\* (left or right) exactly when |dx| >= |dy| and vertical (up or down)
\* otherwise, the sign of the dominant delta choosing the direction.
C14_SwipeHorizontalIfNotSmaller ==
    toolCall.op = "swipe"
    => /\ Len(toolCall.sent) = 1
       /\ toolCall.sent[1].action_type = "scroll"
       /\ SwipeDirection \in { "left", "right" }
          <=> Abs(SwipeDx) >= Abs(SwipeDy)
       /\ SwipeDirection \in { "up", "down" }
          <=> Abs(SwipeDx) < Abs(SwipeDy)
       /\ SwipeDirection = "right" => SwipeDx >= 0
       /\ SwipeDirection = "left" => SwipeDx <= 0
       /\ SwipeDirection = "down" => SwipeDy <= 0
       /\ SwipeDirection = "up" => SwipeDy >= 0

\* C14 amended: swipe sends one scroll action whose direction is horizontal
\* exactly when |dx| > |dy| (right for dx > 0, left for dx < 0) and vertical
\* otherwise, ties included (down for dy < 0, up for dy >= 0).
C14_SwipeHorizontalIfGreater ==
    toolCall.op = "swipe"
    => /\ Len(toolCall.sent) = 1
       /\ toolCall.sent[1].action_type = "scroll"
       /\ SwipeDirection \in { "left", "right", "up", "down" }
       /\ SwipeDirection \in { "left", "right" }
          <=> Abs(SwipeDx) > Abs(SwipeDy)
       /\ SwipeDirection = "right" <=> (Abs(SwipeDx) > Abs(SwipeDy)
                                        /\ SwipeDx > 0)
       /\ SwipeDirection = "left" <=> (Abs(SwipeDx) > Abs(SwipeDy)
                                       /\ SwipeDx < 0)
       /\ SwipeDirection = "down" <=> (Abs(SwipeDx) <= Abs(SwipeDy)
                                       /\ SwipeDy < 0)
       /\ SwipeDirection = "up" <=> (Abs(SwipeDx) <= Abs(SwipeDy)
                                     /\ SwipeDy >= 0)

\* C14 happens: a diagonal swipe with |dx| = |dy| = 2 towards the upper left
\* is sent as a scroll down.
C14_Witness ==
    /\ toolCall.op = "swipe"
    /\ toolCall.arg = <<2, 2, 0, 0>>
    /\ SwipeDirection = "down"

-----------------------------------------------------------------------------
(* Properties of the driver: recording *)

\* C15: no persistence or reporting failure propagates: every call of
\* write_task_result returns to the driver, whether or not the directory
\* could be created, the file written and the webhook reached, and the run
\* is not left by an exception once the outcome was handed to it.
C15_PersistenceFailureContained ==
    /\ \A i \in DOMAIN trace :
          trace[i].call = "write_task_result" => trace[i].ok
    /\ Did("write_task_result") => pc # "raised"

-----------------------------------------------------------------------------
(* Properties of the driver: stages *)

\* the stage a call of the loop body belongs to; a report of an exception
\* may be sent at any stage
StageOf(call) ==
    CASE call = "get_suite_task_length" -> 0
      [] call = "reset" -> 1
      [] call \in { "get_task_goal", "get_task_complexity" } -> 2
      [] call = "initialize_task" -> 3
      [] call \in { "enable_accessibility_service", "keepalive.start" } -> 4
      [] call \in { "DroidAgent", "track_task" } -> 5
      [] call = "agent.run" -> 6
      [] call = "get_task_score" -> 7
      [] call \in { "write_task_result", "write file",
                    "send_discord_task_result" } -> 8
      [] call = "write_task_trajectory" -> 9
      [] call \in { "tear_down_task", "keepalive.stop" } -> 10
      [] OTHER -> -1

\* the instance whose calls the trace holds had its teardown attempted
TornDown == Did("tear_down_task") /\ Did("keepalive.stop")

\* the instance whose calls the trace holds was skipped before its agent ran
Skipped ==
    /\ ~Did("DroidAgent")
    /\ ~Did("agent.run")
    /\ \/ Did("initialize_task") /\ ~DidOk("initialize_task")
       \/ /\ Did("enable_accessibility_service")
          /\ ~DidOk("enable_accessibility_service")
    /\ trace[Len(trace)] = Event("send_discord_exception", TRUE)

\* C16: the calls of one task instance happen in stage order (reset, then
\* initialize_task, then accessibility setup, then the agent run, then
\* scoring and recording, then tear_down_task), each stage only after the
\* stages before it, and the reset of the next instance happens only after
\* the teardown attempt of the instance before it, or after that instance
\* was skipped.
C16_StagesInOrder ==
    /\ \A i, j \in DOMAIN trace :
          (/\ i < j
           /\ StageOf(trace[i].call) >= 0
           /\ StageOf(trace[j].call) >= 0)
          => StageOf(trace[i].call) <= StageOf(trace[j].call)
    /\ Count("reset") <= 1
    /\ Did("initialize_task") => trace[1] = Event("reset", TRUE)
    /\ Did("enable_accessibility_service") => DidOk("initialize_task")
    /\ Did("agent.run") => DidOk("enable_accessibility_service")
    /\ Did("get_task_score") => Did("agent.run")
    /\ Did("write_task_result") => Did("agent.run")
    /\ Did("tear_down_task") => Did("agent.run")
    /\ (pc = "reset" /\ trace # <<>> /\ trace[1].call = "reset")
       => (TornDown \/ Skipped)
    /\ (pc \notin OutsideInstance /\ trace # <<>>)
       => (trace[1].call = "reset" /\ ~TornDown /\ ~Skipped)

\* C16 happens: the second instance of a task name has been torn down after
\* its agent timed out, the first instance having gone before it.
C16_Witness ==
    /\ pc = "for task_name"
    /\ task_idx = 1
    /\ prev # None
    /\ prev[1].task_idx = 1
    /\ TornDown
    /\ Did("get_task_score")
    /\ DidOk("write_task_trajectory")
    /\ trace[1] = Event("reset", TRUE)

\* C17: for every task instance that reaches the agent run, write_task_result
\* is called exactly once: never twice, only after the agent run has
\* concluded, and once before tear_down_task is called or the instance is
\* left.
C17_RecordFinalisedOnce ==
    /\ Count("write_task_result") <= 1
    /\ \A i \in DOMAIN trace :
          trace[i].call = "write_task_result"
          => \E j \in 1 .. (i - 1) : trace[j].call = "agent.run"
    /\ (Did("agent.run") /\ (pc = "tear_down_task" \/ pc \in OutsideInstance))
       => Count("write_task_result") = 1
    /\ \A i \in DOMAIN trace :
          trace[i].call = "tear_down_task"
          => \E j \in 1 .. (i - 1) : trace[j].call = "write_task_result"

\* C18: for every task instance that reaches the agent run,
\* write_task_trajectory is attempted exactly once whichever branch was
\* taken; when the attempt raises, the exception is reported and the driver
\* goes on to the teardown and the next instance.
C18_TrajectoryAttemptedOnce ==
    /\ Count("write_task_trajectory") <= 1
    /\ (Did("agent.run") /\ (pc = "tear_down_task" \/ pc \in OutsideInstance))
       => Count("write_task_trajectory") = 1
    /\ \A i \in DOMAIN trace :
          trace[i] = Event("write_task_trajectory", FALSE)
          => /\ Len(trace) > i
             /\ trace[i + 1] = Event("send_discord_exception", TRUE)
             /\ pc = "tear_down_task" \/ TornDown

\* C19: whether tear_down_task returns or raises, keepalive.stop is called
\* next and once; when tear_down_task raised, the exception is then reported
\* and the driver is at the next task instance (or past the last one).  A
\* stop that did not fail leaves no subprocess of the keepalive alive.
C19_TeardownStopsKeepalive ==
    \A i \in DOMAIN trace :
       trace[i].call = "tear_down_task"
       => /\ Len(trace) > i
          /\ trace[i + 1].call = "keepalive.stop"
          /\ Count("keepalive.stop") = 1
          /\ Count("tear_down_task") = 1
          /\ trace[i + 1].ok
             => keepalive.process = None /\ keepalive.alive = {}
          /\ IF trace[i].ok
             THEN Len(trace) = i + 1
             ELSE /\ Len(trace) = i + 2
                  /\ trace[i + 2] = Event("send_discord_exception", TRUE)
          /\ pc \in { "reset", "for task_name", "returned" }
          /\ prev # None

\* C19 happens: tear_down_task raised for the first instance, whose keepalive
\* subprocess had been started, and the driver is at the reset of the second
\* with the subprocess stopped.
C19_Witness ==
    /\ trace # <<>>
    /\ \E i \in DOMAIN trace : trace[i] = Event("tear_down_task", FALSE)
    /\ DidOk("keepalive.start")
    /\ DidOk("keepalive.stop")
    /\ keepalive.process = None
    /\ pc = "reset"
    /\ task_idx = 1

\* C20: when the agent run raises an exception other than a timeout,
\* get_task_score is not called for the instance, write_task_result is, and
\* the outcome it records has the captured exception as its error, score
\* 0.0, agent_success false, steps_taken 0 and no final thought.
C20_AgentExceptionOutcome ==
    (branch = "error" /\ Did("agent.run") /\ ~DidOk("agent.run"))
    => /\ ~Did("get_task_score")
       /\ error = Some("repr(agent exception)")
       /\ pc = "write_task_result" \/ Did("write_task_result")
       /\ Did("write_task_result")
          => /\ task_result[1].error = Some("repr(agent exception)")
             /\ task_result[1].success = "0.0"
             /\ task_result[1].agent_success = FALSE
             /\ task_result[1].steps_taken = 0
             /\ task_result[1].final_thought = <<>>
       /\ DidOk("write file")
          => files[Underscored(task_name)] = <<task_result[1]>>

\* C20 happens: an agent that raised after one step has its outcome written
\* and the driver is at the teardown.
C20_Witness ==
    /\ branch = "error"
    /\ Did("agent.run")
    /\ ~DidOk("agent.run")
    /\ agent[1].step_counter = 1
    /\ DidOk("write file")
    /\ pc = "tear_down_task"
    /\ files[Underscored(task_name)][1].error = Some("repr(agent exception)")

\* C21: stop on a live process calls terminate first and kill only after the
\* wait of the grace period timed out; whether the process exited on
\* terminate or had to be killed, stop returns with that process no longer
\* alive, the handle cleared and running = False.
C21_StopTerminatesThenKills ==
    (/\ toolCall.op = "keepalive.stop"
     /\ Polls(toolCall.before)
     /\ toolCall.arg \in { "graceful", "kill" })
    => /\ toolCall.sent[1] = "terminate"
       /\ toolCall.sent[2] = "wait(timeout=5)"
       /\ \A i \in DOMAIN toolCall.sent :
             toolCall.sent[i] = "kill"
             => /\ toolCall.arg = "kill"
                /\ i = 3
       /\ toolCall.arg = "kill"
          => \E i \in DOMAIN toolCall.sent : toolCall.sent[i] = "kill"
       /\ toolCall.before.process[1] \notin keepalive.alive
       /\ keepalive.alive = {}
       /\ keepalive.process = None
       /\ keepalive.running = FALSE

\* C21 happens: a running subprocess that ignored terminate has been killed.
C21_Witness ==
    /\ toolCall.op = "keepalive.stop"
    /\ toolCall.arg = "kill"
    /\ Polls(toolCall.before)
    /\ toolCall.before.running
    /\ toolCall.sent = <<"terminate", "wait(timeout=5)", "kill", "wait">>
    /\ keepalive.process = None

\* C22: every task instance whose initialize_task succeeded has had
\* tear_down_task called by the time the driver is at the next instance or
\* run() has returned, also when accessibility setup or the agent run failed.
C22_InitializedIsTornDown ==
    (/\ pc \in { "reset", "for task_name", "returned" }
     /\ DidOk("initialize_task"))
    => Did("tear_down_task")

-----------------------------------------------------------------------------
(* Properties of the completion state *)

\* C23: a complete call that raises leaves finished, success and reason with
\* the values they had before the call.
C23_RaisingCompleteChangesNothing ==
    (toolCall.op = "complete" /\ toolCall.raised)
    => /\ finished = toolCall.before.finished
       /\ success = toolCall.before.success
       /\ reason = toolCall.before.reason

\* C24: whenever finished is true, success is set (true or false) and reason
\* is a non-empty string; before any call finished is false and success and
\* reason are unset.
C24_FinishedHasOutcome ==
    /\ finished
       => /\ success \in { Some(TRUE), Some(FALSE) }
          /\ reason # None
          /\ reason[1] # ""
    /\ toolCall = NoCall
       => /\ finished = FALSE
          /\ success = None
          /\ reason = None

\* C24 happens: the adapter finished through complete(True, "") and a later
\* complete(False, "") raised.
C24_Witness ==
    /\ finished
    /\ toolCall.op = "complete"
    /\ toolCall.raised
    /\ toolCall.before.finished
    /\ reason = Some("Task completed successfully.")
    /\ success = Some(FALSE)

-----------------------------------------------------------------------------
(* Properties of the stored notes *)

\* C25: whatever strings remember was called with, whitespace-only ones
\* included, no entry of the memory list is the empty string.
C25_NoEmptyNote ==
    \A i \in DOMAIN memory : memory[i] # <<>>

-----------------------------------------------------------------------------
(* Properties of the driver: the keepalive subprocess *)

\* C26: when the driver is at the reset that begins a task instance, and
\* when run() has ended, by returning or by a propagated exception, no
\* subprocess the keepalive spawned is alive.
C26_NoKeepaliveLeftAlive ==
    pc \in { "reset", "returned", "raised" } => keepalive.alive = {}

====
